---- MODULE Spec2Model ----
(***************************************************************************)
(* A model of the literature harvesting pipeline of CEP-CER-Backend:       *)
(*   - the deduplication and persistence gate (save_merged_to_db),         *)
(*   - the HTTP entry points that start and cancel a search                *)
(*     (routers/literature.py),                                            *)
(*   - the paginated PubMed retrieval with its retrying transport          *)
(*     (literature/pubmed_runner.py).                                      *)
(* Each part has its own specification (SpecSave, SpecRouter,              *)
(* SpecPipeline); the variables of the other parts stay at their initial   *)
(* values.                                                                 *)
(***************************************************************************)
EXTENDS Integers, Sequences, FiniteSets, TLC

\* ------------------------------------------------------------------ bounds
\* longest DataFrame handed to one save_merged_to_db call
MaxLen == 2
\* most Literature rows the store holds over all projects
MaxRows == 4

\* most HTTP requests served in one behaviour of the router
MaxRequests == 4

\* most keyword rows of one pipeline run
MaxKeywords == 2
\* most batches one keyword's result set needs
MaxBatches == 2
\* most consecutive 429 answers the remote gives to one request
MaxThrottle == 6

\* most comma-separated pieces of one Filters value
MaxFilters == 2

\* most entries of one efetch payload handed to xml_to_records
MaxEntries == 2

\* most rows of one keyword CSV handed to merge_csvs
MaxFileRows == 2

\* most Literature records of the project that is screened and whose PDFs are
\* downloaded
MaxArticles == 3

Projects == {1, 2}
\* requests being served at the same time
Slots == {1, 2}

\* ------------------------------------------------------------- variables
VARIABLES
    \* --- the persistent store and one save_merged_to_db call ---
    literature,      \* project -> the committed Literature rows, in insert order
    sv_pc,           \* position of the call: idle, loop, returned, raised
    project_id,      \* the call's project_id
    df,              \* the call's DataFrame: the raw article_id cell of every row
    existing_pmids,  \* local of the call
    seen_in_run,     \* local of the call
    pending,         \* rows db.add()ed to the session and not yet committed
    inserted,        \* local of the call; the return value once returned
    count_before,    \* history: the project's row count when the call began
    \* --- routers/literature.py: the module's dictionaries and the requests ---
    running_searches,    \* project -> running_searches.get(project, False)
    cancellation_flags,  \* project -> cancellation_flags.get(project, False)
    keywords_memory,     \* project -> "absent", "empty" ([]) or "some"
    req,                 \* slot -> the request served there and its position
    loop,                \* the slot whose async handler holds the event loop, or 0
    started,             \* requests accepted so far
    \* --- literature/pubmed_runner.py: one run_pubmed_pipeline call ---
    pl_pc,     \* idle, for, esearch, batch, efetch, returned, raised
    nkw,       \* number of keyword rows of the run
    kw,        \* index of the keyword the for loop is at
    count,     \* local: the hit count of the last search
    loops,     \* local
    batch_i,   \* local i: the batch index
    all_rows,  \* local: the number of records accumulated for the keyword
    csv,       \* keyword -> rows of its CSV file in All-CSV as written by this
               \* run, Stale for a file left by an earlier run, NoFile for none
    merged,    \* All-Merged.xlsx: none, the workbook of an earlier run ("old"), or
               \* the workbook this run wrote ("new") with its rows per keyword file
    handle,    \* locals qk, we: the history handle of the last search
    run,       \* history: tells this run_pubmed_pipeline call from the one before
    call,      \* the esearch_with_history / efetch_batch call under way or last ended
    kwlog,     \* history: per keyword of this run, its count, fetch offsets and records
    \* --- literature/pubmed_runner.py: one build_query call ---
    bq_pc,     \* idle, called, returned
    bq_args,   \* the arguments of the call
    term,      \* the query term returned, as its sequence of tokens
    \* --- literature/pubmed_runner.py: one xml_to_records call ---
    xr_pc,     \* idle, called, returned, raised
    xml_text,  \* the payload: its entries in document order
    records,   \* the list returned
    \* --- literature/pubmed_runner.py: one merge_csvs call ---
    mg_pc,     \* idle, called, returned
    csv_dir,   \* file name -> the PMID column of the file, <<>> for no such file
    workbook,  \* the sheets written: Combined, Duplicate (with its fills), Master
    \* --- secondary/pdf_download_runner.py: run_pdf_download for one project ---
    pd_pc,            \* idle, loop, returned
    lits,             \* the project's Literature records are 1..lits (id = article_id)
    included,         \* record -> it is a PubMed record screened INCLUDE
    pdf_table,        \* the PdfDownloadStatus rows of the project, in insert order
    folder,           \* the PDFs of the project folder, oldest first: the name of a
                      \* file and the article its content was fetched for
    pubmed_articles,  \* local of the call
    pd_i,             \* the articles of the for loop done so far
    pd_before,        \* history: pdf_table when the call began
    \* --- services/primary_screening_service.py, for one project ---
    ps_pc,              \* idle, loop, returned, raised
    unique_flags,       \* the project's Literature records in id order: is_unique
    primary_screening,  \* the committed PrimaryScreening rows, in insert order
    ps_articles,        \* local articles of the call
    ps_pending,         \* rows db.add()ed and not yet committed
    screened,           \* local of the call; the return value once returned
    ps_before           \* history: the committed rows when the call began

saveVars == <<literature, sv_pc, project_id, df, existing_pmids, seen_in_run,
              pending, inserted, count_before>>

routerVars == <<running_searches, cancellation_flags, keywords_memory, req,
                loop, started>>

pipeVars == <<pl_pc, nkw, kw, count, loops, batch_i, all_rows, csv, merged,
              handle, run, call, kwlog>>

queryVars == <<bq_pc, bq_args, term>>

xmlVars == <<xr_pc, xml_text, records>>

mergeVars == <<mg_pc, csv_dir, workbook>>

pdfVars == <<pd_pc, lits, included, pdf_table, folder, pubmed_articles, pd_i,
             pd_before>>

primaryVars == <<ps_pc, unique_flags, primary_screening, ps_articles, ps_pending,
                 screened, ps_before>>

vars == <<saveVars, routerVars, pipeVars, queryVars, xmlVars, mergeVars, pdfVars,
          primaryVars>>

\* what the steps of one part leave alone: the variables of the other parts
outsideSave == <<routerVars, pipeVars, queryVars, xmlVars, mergeVars, pdfVars,
                 primaryVars>>
\* (the router's requests read and write the Literature table)
saveLocals == <<sv_pc, project_id, df, existing_pmids, seen_in_run, pending,
                inserted, count_before>>
outsideRouter == <<saveLocals, pipeVars, queryVars, xmlVars, mergeVars, pdfVars,
                   primaryVars>>
outsidePipe == <<saveVars, routerVars, queryVars, xmlVars, mergeVars, pdfVars,
                 primaryVars>>
outsideQuery == <<saveVars, routerVars, pipeVars, xmlVars, mergeVars, pdfVars,
                  primaryVars>>
outsideXml == <<saveVars, routerVars, pipeVars, queryVars, mergeVars, pdfVars,
                primaryVars>>
outsideMerge == <<saveVars, routerVars, pipeVars, queryVars, xmlVars, pdfVars,
                  primaryVars>>
outsidePdf == <<saveVars, routerVars, pipeVars, queryVars, xmlVars, mergeVars,
                primaryVars>>
outsidePrimary == <<saveVars, routerVars, pipeVars, queryVars, xmlVars, mergeVars,
                    pdfVars>>

\* --------------------------------------------------- save_merged_to_db
\* What row.get("article_id") can be: an integer cell, a text cell, the empty
\* text, a blank cell (NaN) or an absent column (None).
RawIds ==
    { [t |-> "int",  n |-> 1, s |-> ""],
      [t |-> "str",  n |-> 0, s |-> "1"],
      [t |-> "int",  n |-> 2, s |-> ""],
      [t |-> "str",  n |-> 0, s |-> ""],
      [t |-> "nan",  n |-> 0, s |-> ""],
      [t |-> "none", n |-> 0, s |-> ""] }

Digits == <<"1", "2">>

\* str(row.get("article_id"))
Str(raw) ==
    CASE raw.t = "int"  -> Digits[raw.n]
      [] raw.t = "str"  -> raw.s
      [] raw.t = "nan"  -> "nan"
      [] raw.t = "none" -> "None"

\* an article_id that stands for an empty or missing external id
MissingId(article_id) == article_id \in {"", "nan", "None"}

ArticleIds(rows) == { rows[i].article_id : i \in 1..Len(rows) }

\* mutant: the query forgets the project filter
QueryExistingAllProjects(store, p) ==
    UNION { ArticleIds(store[q]) : q \in Projects }

\* db.query(Literature.article_id).filter(Literature.project_id == project_id)
QueryExisting(store, p) == ArticleIds(store[p])

\* mutant: only the stored ids are consulted, not the ids of this run
IsUniqueIgnoringRun(article_id, existing, seen) == article_id \notin existing

\* mutant: only the ids of this run are consulted, not the stored ones
IsUniqueIgnoringStore(article_id, existing, seen) == article_id \notin seen

\* the if/else that sets is_unique
IsUnique(article_id, existing, seen) ==
    ~(article_id \in existing \/ article_id \in seen)

\* Literature(project_id=..., article_id=..., is_unique=...)
Record(p, article_id, is_unique) ==
    [project_id |-> p, article_id |-> article_id, is_unique |-> is_unique]

\* mutant: only the rows flagged unique reach the table
CommitUniqueOnly(rows, added) == rows \o SelectSeq(added, LAMBDA r : r.is_unique)

\* mutant: the commit clears the unique flag of the stored rows whose id
\* comes again
CommitReflagging(rows, added) ==
    [i \in 1..Len(rows) |->
        IF rows[i].article_id \in ArticleIds(added)
        THEN [rows[i] EXCEPT !.is_unique = FALSE] ELSE rows[i]] \o added

\* db.commit(): the session's pending rows become rows of the table
Commit(rows, added) == rows \o added

\* mutant: the rows added before the failure stay in the table
CloseKeepingPending(rows, added) == rows \o added

\* get_db closes the session of a failed request: the pending rows are dropped
CloseSession(rows, added) == rows

TotalRows == Len(literature[1]) + Len(literature[2])

Dataframes == UNION { [1..n -> RawIds] : n \in 0..MaxLen }

\* entry of save_merged_to_db up to the loop: the existing-ids query
SaveBegin ==
    /\ UNCHANGED outsideSave
    /\ sv_pc = "idle"
    /\ \E p \in Projects, d \in Dataframes :
          /\ TotalRows + Len(d) <= MaxRows
          /\ project_id' = p
          /\ df' = d
          /\ existing_pmids' = QueryExisting(literature, p)
          /\ count_before' = Len(literature[p])
    /\ seen_in_run' = {}
    /\ pending' = <<>>
    /\ inserted' = 0
    /\ sv_pc' = "loop"
    /\ UNCHANGED literature

\* one iteration of the for loop over df.iterrows()
SaveRow ==
    /\ UNCHANGED outsideSave
    /\ sv_pc = "loop"
    /\ inserted < Len(df)
    /\ LET article_id == Str(df[inserted + 1])
           is_unique == IsUnique(article_id, existing_pmids, seen_in_run)
       IN  /\ pending' = Append(pending, Record(project_id, article_id, is_unique))
           /\ seen_in_run' = seen_in_run \cup {article_id}
    /\ inserted' = inserted + 1
    /\ UNCHANGED <<literature, sv_pc, project_id, df, existing_pmids, count_before>>

\* db.commit() succeeds and the call returns inserted
SaveCommit ==
    /\ UNCHANGED outsideSave
    /\ sv_pc = "loop"
    /\ inserted = Len(df)
    /\ literature' = [literature EXCEPT ![project_id] = Commit(@, pending)]
    /\ pending' = <<>>
    /\ sv_pc' = "returned"
    /\ UNCHANGED <<project_id, df, existing_pmids, seen_in_run, inserted,
                   count_before>>

\* an exception in the loop or in db.commit(): the call raises, the request's
\* session is closed with its rows still pending
SaveFail ==
    /\ UNCHANGED outsideSave
    /\ sv_pc = "loop"
    /\ literature' = [literature EXCEPT ![project_id] = CloseSession(@, pending)]
    /\ sv_pc' = "raised"
    /\ UNCHANGED <<project_id, df, existing_pmids, seen_in_run, pending, inserted,
                   count_before>>

\* the caller goes on: the call's locals and the request's session are gone
SaveEnd ==
    /\ UNCHANGED outsideSave
    /\ sv_pc \in {"returned", "raised"}
    /\ sv_pc' = "idle"
    /\ project_id' = 1
    /\ df' = <<>>
    /\ existing_pmids' = {}
    /\ seen_in_run' = {}
    /\ pending' = <<>>
    /\ inserted' = 0
    /\ count_before' = 0
    /\ UNCHANGED literature

SaveInit ==
    /\ literature = [p \in Projects |-> <<>>]
    /\ sv_pc = "idle"
    /\ project_id = 1
    /\ df = <<>>
    /\ existing_pmids = {}
    /\ seen_in_run = {}
    /\ pending = <<>>
    /\ inserted = 0
    /\ count_before = 0

NextSave ==
    \/ SaveBegin
    \/ SaveRow
    \/ SaveCommit
    \/ SaveFail
    \/ SaveEnd

\* ------------------------------------------------ routers/literature.py
\* The application runs on one event loop.  An "async def" handler
\* (run_literature_search, cancel_search) runs on the loop and lets another
\* handler in only at an await; everything it calls without await, the
\* pipeline included, keeps the loop.  A "def" handler
\* (run_literature_screening) is handed to a worker thread and runs beside
\* the loop and beside the other worker threads.

\* what the uploaded keywordsFile can be: rejected before line 125 (empty, not
\* a workbook, a column missing), without a usable keyword row, or usable
Files == {"rejected", "no_keywords", "valid"}

\* no cancellation asked for
NoSignal == -1

\* kwdone: the keywords the run's pipeline is through; records_saved: the
\* number the response reports; committed, signal: history (the rows this
\* request committed; kwdone at the time POST /cancel came in for the run)
NoRequest == [kind |-> "none", project |-> 1, pc |-> "none", file |-> "valid",
              kwdone |-> 0, records_saved |-> 0, committed |-> 0, signal |-> NoSignal]

Request(kind, p, pc, file) ==
    [kind |-> kind, project |-> p, pc |-> pc, file |-> file,
     kwdone |-> 0, records_saved |-> 0, committed |-> 0, signal |-> NoSignal]

Responded(r, status) == [r EXCEPT !.pc = status]

\* the rows the gate stages for a run that retrieved n records (all of id "1")
RunRecords(store, p, n) ==
    [i \in 1..n |->
        Record(p, "1", IsUnique("1", QueryExisting(store, p),
                                IF i = 1 THEN {} ELSE {"1"}))]

\* db.query(Literature).filter(Literature.project_id == project_id).count()
PartialCount(store, r) == Len(store[r.project])

Responses == {"200", "partial", "400", "404", "409", "499", "500", "cancelling"}

\* mutant: the guard of /run always lets the request in
IsRunningNever(running, p) == FALSE

\* mutant: every project counts as running
IsRunningAlways(running, p) == TRUE

\* running_searches.get(project_id, False)
IsRunning(running, p) == running[p]

\* mutant: the flag is left set when the pipeline raises
ReleaseKeeping(running, p) == running

\* running_searches[project_id] = False
Release(running, p) == [running EXCEPT ![p] = FALSE]

\* POST /run arrives; lines 103-107: the 409 guard, then await keywordsFile.read()
RunArrive(s) ==
    /\ UNCHANGED outsideRouter
    /\ req[s].kind = "none"
    /\ loop = 0
    /\ started < MaxRequests
    /\ started' = started + 1
    /\ \E p \in Projects, f \in Files :
          req' = [req EXCEPT ![s] =
                    IF IsRunning(running_searches, p)
                    THEN Request("run", p, "409", f)
                    ELSE Request("run", p, "read", f)]
    /\ UNCHANGED <<literature, running_searches, cancellation_flags, keywords_memory,
                   loop>>

\* lines 108-125: the read has returned; the file is validated and
\* keywords_memory[project_id] is reset
RunReset(s) ==
    /\ UNCHANGED outsideRouter
    /\ req[s].kind = "run" /\ req[s].pc = "read"
    /\ loop = 0
    /\ IF req[s].file = "rejected"
       THEN /\ req' = [req EXCEPT ![s] = Responded(@, "400")]
            /\ UNCHANGED <<keywords_memory, loop>>
       ELSE /\ keywords_memory' = [keywords_memory EXCEPT ![req[s].project] = "empty"]
            /\ req' = [req EXCEPT ![s].pc = "fill"]
            /\ loop' = s
    /\ UNCHANGED <<literature, running_searches, cancellation_flags, started>>

\* lines 128-166: the keyword rows are appended; without any, 400; otherwise
\* the project is marked running and its cancellation flag cleared
RunFill(s) ==
    /\ UNCHANGED outsideRouter
    /\ req[s].kind = "run" /\ req[s].pc = "fill"
    /\ loop = s
    /\ LET p == req[s].project IN
       IF req[s].file = "no_keywords"
       THEN /\ req' = [req EXCEPT ![s] = Responded(@, "400")]
            /\ loop' = 0
            /\ UNCHANGED <<keywords_memory, running_searches, cancellation_flags>>
       ELSE /\ keywords_memory' = [keywords_memory EXCEPT ![p] = "some"]
            /\ running_searches' = [running_searches EXCEPT ![p] = TRUE]
            /\ cancellation_flags' = [cancellation_flags EXCEPT ![p] = FALSE]
            /\ req' = [req EXCEPT ![s].pc = "pipeline"]
            /\ UNCHANGED loop
    /\ UNCHANGED <<literature, started>>

\* line 170, inside the call: the pipeline retrieves one more keyword (the for
\* loop of run_pubmed_pipeline, which reads no cancellation flag)
RunKeyword(s) ==
    /\ UNCHANGED outsideRouter
    /\ req[s].kind = "run" /\ req[s].pc = "pipeline"
    /\ loop = s
    /\ req[s].kwdone < MaxKeywords
    /\ req' = [req EXCEPT ![s].kwdone = @ + 1]
    /\ UNCHANGED <<literature, running_searches, cancellation_flags, keywords_memory,
                   loop, started>>

\* lines 170-185: the pipeline is through its keywords, commits the run's
\* records in one transaction and returns inserted; the flag is released; a
\* cancellation seen now answers 499 (through the except HTTPException branch)
RunReturn(s) ==
    /\ UNCHANGED outsideRouter
    /\ req[s].kind = "run" /\ req[s].pc = "pipeline"
    /\ loop = s
    /\ req[s].kwdone = MaxKeywords
    /\ LET p == req[s].project IN
       \E n \in 0..1 :
          /\ TotalRows + n <= MaxRows
          /\ literature' = [literature EXCEPT
                               ![p] = Commit(@, RunRecords(literature, p, n))]
          /\ running_searches' = Release(running_searches, p)
          /\ IF cancellation_flags[p]
             THEN /\ cancellation_flags' = [cancellation_flags EXCEPT ![p] = FALSE]
                  /\ req' = [req EXCEPT ![s] =
                               [Responded(@, "499") EXCEPT !.committed = n]]
             ELSE /\ req' = [req EXCEPT ![s] =
                               [Responded(@, "200") EXCEPT !.committed = n,
                                                           !.records_saved = n]]
                  /\ UNCHANGED cancellation_flags
    /\ loop' = 0
    /\ UNCHANGED <<keywords_memory, started>>

\* lines 190-209: the pipeline raises; the flag is released and the answer is
\* "partial" with the count of the project's rows when it has any, 500
\* otherwise
RunRaise(s) ==
    /\ UNCHANGED outsideRouter
    /\ req[s].kind = "run" /\ req[s].pc = "pipeline"
    /\ loop = s
    /\ running_searches' = Release(running_searches, req[s].project)
    /\ LET partial_count == PartialCount(literature, req[s]) IN
       req' = [req EXCEPT ![s] =
                 IF partial_count > 0
                 THEN [Responded(@, "partial") EXCEPT !.records_saved = partial_count]
                 ELSE Responded(@, "500")]
    /\ loop' = 0
    /\ UNCHANGED <<literature, cancellation_flags, keywords_memory, started>>

\* POST /cancel/{project_id} comes in: the request waits for the event loop;
\* a run of the project that is inside the pipeline has now been asked to stop
CancelArrive(s) ==
    /\ UNCHANGED outsideRouter
    /\ req[s].kind = "none"
    /\ started < MaxRequests
    /\ started' = started + 1
    /\ \E p \in Projects :
          req' = [t \in Slots |->
                    IF t = s THEN Request("cancel", p, "queued", "valid")
                    ELSE IF /\ req[t].kind = "run" /\ req[t].pc = "pipeline"
                            /\ req[t].project = p /\ req[t].signal = NoSignal
                         THEN [req[t] EXCEPT !.signal = req[t].kwdone]
                         ELSE req[t]]
    /\ UNCHANGED <<literature, running_searches, cancellation_flags, keywords_memory,
                   loop>>

\* cancel_search, lines 213-224: no await, one step of the loop once it is free
Cancel(s) ==
    /\ UNCHANGED outsideRouter
    /\ req[s].kind = "cancel" /\ req[s].pc = "queued"
    /\ loop = 0
    /\ LET p == req[s].project IN
          IF ~IsRunning(running_searches, p)
          THEN /\ req' = [req EXCEPT ![s] = Responded(@, "404")]
               /\ UNCHANGED cancellation_flags
          ELSE /\ cancellation_flags' = [cancellation_flags EXCEPT ![p] = TRUE]
               /\ req' = [req EXCEPT ![s] = Responded(@, "cancelling")]
    /\ UNCHANGED <<literature, running_searches, keywords_memory, loop, started>>

\* POST /screen arrives and a worker thread runs lines 232-233
ScreenArrive(s) ==
    /\ UNCHANGED outsideRouter
    /\ req[s].kind = "none"
    /\ loop = 0
    /\ started < MaxRequests
    /\ started' = started + 1
    /\ \E p \in Projects :
          req' = [req EXCEPT ![s] =
                    IF keywords_memory[p] # "some"
                    THEN Request("screen", p, "400", "valid")
                    ELSE Request("screen", p, "pipeline", "valid")]
    /\ UNCHANGED <<literature, running_searches, cancellation_flags, keywords_memory,
                   loop>>

\* lines 236-243: the worker thread's pipeline call returns or raises
ScreenEnd(s) ==
    /\ UNCHANGED outsideRouter
    /\ req[s].kind = "screen" /\ req[s].pc = "pipeline"
    /\ \E answer \in {"200", "500"} :
          req' = [req EXCEPT ![s] = Responded(@, answer)]
    /\ UNCHANGED <<literature, running_searches, cancellation_flags, keywords_memory,
                   loop, started>>

\* the response has been sent
Respond(s) ==
    /\ UNCHANGED outsideRouter
    /\ req[s].pc \in Responses
    /\ req' = [req EXCEPT ![s] = NoRequest]
    /\ UNCHANGED <<literature, running_searches, cancellation_flags, keywords_memory,
                   loop, started>>

RouterInit ==
    /\ running_searches = [p \in Projects |-> FALSE]
    /\ cancellation_flags = [p \in Projects |-> FALSE]
    /\ keywords_memory = [p \in Projects |-> "absent"]
    /\ req = [s \in Slots |-> NoRequest]
    /\ loop = 0
    /\ started = 0

NextRouter ==
    \E s \in Slots :
        \/ RunArrive(s)
        \/ RunReset(s)
        \/ RunFill(s)
        \/ RunKeyword(s)
        \/ RunReturn(s)
        \/ RunRaise(s)
        \/ CancelArrive(s)
        \/ Cancel(s)
        \/ ScreenArrive(s)
        \/ ScreenEnd(s)
        \/ Respond(s)
\* ------------------------------------------- literature/pubmed_runner.py
MAX_RETRIES == 5
\* DEFAULT_SLEEP in hundredths of a second (0.34 s: no NCBI_API_KEY is set)
DEFAULT_SLEEP == 34
BATCH == 200
\* the sleep at the head of esearch_with_history (0.4 s), in hundredths
ESEARCH_SLEEP == 40

RECURSIVE Pow2(_)
Pow2(n) == IF n = 0 THEN 1 ELSE 2 * Pow2(n - 1)

\* The remote's answers to the attempts of one request: 429 to the first n429
\* attempts, then always the status final; 0 stands for no answer at all
\* (connection error, timeout).
FinalStatuses == {200, 404, 500, 0}
Scripts == [n429 : 0..MaxThrottle, final : FinalStatuses]

\* the status the remote gives to attempt number k (from 0) of a request
Answer(script, k) == IF k < script.n429 THEN 429 ELSE script.final

\* mutant: the transport raises HTTPError for an error status (as
\* raise_for_status inside func would)
SessionGetRaising(status) ==
    [raised |-> IF status = 0 THEN "ConnectionError"
                ELSE IF status >= 400 THEN "HTTPError" ELSE "none",
     status |-> status]

\* session.get(url, params=..., timeout=...): a response comes back as a
\* Response object whatever its status; only no response raises (and never an
\* HTTPError)
SessionGet(status) ==
    [raised |-> IF status = 0 THEN "ConnectionError" ELSE "none",
     status |-> status]

\* mutant: safe_request also goes round again on a 5xx response
SafeRequestStepRetrying5xx(retries, got) ==
    IF got.status >= 500 /\ got.status < 600 /\ retries < MAX_RETRIES
    THEN [do |-> "retry", wait |-> Pow2(retries) * DEFAULT_SLEEP]
    ELSE IF got.raised # "none"
         THEN [do |-> "raise", wait |-> 0]
         ELSE [do |-> "return", wait |-> 0]

\* one turn of safe_request's while True: what happens to func's outcome
SafeRequestStep(retries, got) ==
    IF got.raised = "HTTPError"
    THEN IF got.status = 429 /\ retries < MAX_RETRIES
         THEN [do |-> "retry", wait |-> Pow2(retries) * DEFAULT_SLEEP]
         ELSE [do |-> "raise", wait |-> 0]
    ELSE IF got.raised # "none"
         THEN [do |-> "raise", wait |-> 0]
         ELSE [do |-> "return", wait |-> 0]

\* mutant: only a client error status raises
RaisesForClientError(status) == status >= 400 /\ status < 500

\* r.raise_for_status() raises
RaisesForStatus(status) == status >= 400 /\ status < 600

\* the events of a call, in order: a sleep of t hundredths, a request sent
Sleep(t) == [ev |-> "sleep", t |-> t]
Get == [ev |-> "get", t |-> 0]

\* the (querykey, webenv) pair the remote returns to the k-th search of a run:
\* every search opens a history of its own
SearchHandle(r, k) == [run |-> r, k |-> k]
NoHandle == [run |-> -1, k |-> 0]

\* mutant: once the locals hold a handle they keep it
HandleKeptFromFirst(old, returned) == IF old = NoHandle THEN returned ELSE old

\* "count, qk, we = esearch_with_history(...)": the locals take the new handle
HandleAfterSearch(old, returned) == returned

NoCall == [kind |-> "none", script |-> [n429 |-> 0, final |-> 200], retries |-> 0,
           attempts |-> 0, sleeps |-> <<>>, outcome |-> "none", trace |-> <<>>]

\* mutant: the request is sent without the sleep before it
NewCallNoSleep(kind, script) ==
    [kind |-> kind, script |-> script, retries |-> 0, attempts |-> 0,
     sleeps |-> <<>>, outcome |-> "running", trace |-> <<>>]

\* the call up to its first request: time.sleep(0.4) at the head of
\* esearch_with_history, time.sleep(DEFAULT_SLEEP) before efetch_batch
NewCall(kind, script) ==
    [kind |-> kind, script |-> script, retries |-> 0, attempts |-> 0,
     sleeps |-> <<>>, outcome |-> "running",
     trace |-> <<Sleep(IF kind = "esearch" THEN ESEARCH_SLEEP ELSE DEFAULT_SLEEP)>>]

\* the call after one more attempt: "retry" (slept, goes round again),
\* "returned" (the response passed raise_for_status) or "raised"
Attempted(c) ==
    LET status == Answer(c.script, c.attempts)
        step == SafeRequestStep(c.retries, SessionGet(status))
        tried == [c EXCEPT !.attempts = @ + 1, !.trace = Append(@, Get)]
    IN  IF step.do = "retry"
        THEN [tried EXCEPT !.retries = @ + 1, !.sleeps = Append(@, step.wait),
                           !.trace = Append(@, Sleep(step.wait))]
        ELSE IF step.do = "raise" \/ RaisesForStatus(status)
             THEN [tried EXCEPT !.outcome = "raised"]
             ELSE [tried EXCEPT !.outcome = "returned"]

\* mutant: the number of batches is rounded down
FloorDiv(n, b) == n \div b

\* math.ceil(count / BATCH)
CeilDiv(n, b) == IF n % b = 0 THEN n \div b ELSE (n \div b) + 1

\* the hit counts a search reports: 0, the spec's 350, and the counts around
\* every multiple of BATCH up to MaxBatches batches
Counts ==
    {0, 350 % (MaxBatches * BATCH)} \cup
    { n \in { k * BATCH + d : k \in 0..MaxBatches, d \in {-1, 0, 1} } :
        n >= 1 /\ n <= MaxBatches * BATCH }

\* the number of articles in the remote's answer to efetch with retstart, retmax
\* for a result set of n records
ServerBatch(n, retstart, retmax) ==
    IF retstart >= n THEN 0
    ELSE IF n - retstart < retmax THEN n - retstart ELSE retmax

\* xml_to_records: one record per PubmedArticle of the payload
XmlToRecords(articles) == articles

\* mutant: a keyword without hits goes on to the batch loop and the CSV
AfterSearchNoShortCut(n) == "batch"

\* "if count == 0: continue"
AfterSearch(n) == IF n = 0 THEN "for" ELSE "batch"

\* csv values that are not row counts
NoFile == -1
Stale == -2

NoWorkbook == [state |-> "none", rows |-> [k \in 1..MaxKeywords |-> NoFile]]
OldWorkbook == [state |-> "old", rows |-> [k \in 1..MaxKeywords |-> NoFile]]

\* merge_csvs: the Combined sheet holds the rows of every "#...csv" file of
\* All-CSV, whichever run wrote the file
MergeCsvs(files) == [state |-> "new", rows |-> [k \in DOMAIN files |-> files[k]]]

\* history of one keyword: the count and the handle its search returned, the
\* handles its fetch requests were sent with, the offsets of the fetches that
\* returned and the records they gave
LogEntry(n) ==
    [count |-> n, handle |-> NoHandle, used |-> <<>>, fetches |-> <<>>, records |-> 0]

\* run_pubmed_pipeline is called: the keyword rows are read (lines 171-185)
PipelineStart ==
    /\ UNCHANGED outsidePipe
    /\ pl_pc = "idle"
    /\ \E n \in 0..MaxKeywords : nkw' = n
    /\ kw' = 0
    /\ kwlog' = <<>>
    /\ pl_pc' = "for"
    /\ run' = 1 - run
    /\ UNCHANGED <<count, loops, batch_i, all_rows, csv, merged, handle, call>>

\* the for loop takes the next keyword: build_query, then esearch_with_history
\* sleeps 0.4 s and is about to send its request
NextKeyword ==
    /\ UNCHANGED outsidePipe
    /\ pl_pc = "for"
    /\ kw < nkw
    /\ kw' = kw + 1
    /\ \E script \in Scripts : call' = NewCall("esearch", script)
    /\ pl_pc' = "esearch"
    /\ UNCHANGED <<nkw, count, loops, batch_i, all_rows, csv, merged, handle, run,
                   kwlog>>

\* one attempt of the search request inside safe_request, and on a response
\* the rest of esearch_with_history and lines 202-207 of the pipeline
EsearchAttempt ==
    /\ UNCHANGED outsidePipe
    /\ pl_pc = "esearch"
    /\ call' = Attempted(call)
    /\ CASE call'.outcome = "running" ->
                UNCHANGED <<pl_pc, count, loops, batch_i, all_rows, handle, kwlog>>
         [] call'.outcome = "raised" ->
                /\ pl_pc' = "raised"
                /\ UNCHANGED <<count, loops, batch_i, all_rows, handle, kwlog>>
         [] call'.outcome = "returned" ->
                \E n \in Counts :
                    /\ count' = n
                    /\ handle' = HandleAfterSearch(handle, SearchHandle(run, kw))
                    /\ kwlog' = Append(kwlog, [LogEntry(n) EXCEPT
                                                 !.handle = SearchHandle(run, kw)])
                    /\ pl_pc' = AfterSearch(n)
                    /\ IF AfterSearch(n) = "for"
                       THEN UNCHANGED <<loops, batch_i, all_rows>>
                       ELSE /\ all_rows' = 0
                            /\ loops' = CeilDiv(n, BATCH)
                            /\ batch_i' = 0
    /\ UNCHANGED <<nkw, kw, csv, merged, run>>

\* an iteration of "for i in range(loops)" begins: sleep DEFAULT_SLEEP, then
\* efetch_batch(qk, we, retstart, BATCH) is about to send its request
BatchBegin ==
    /\ UNCHANGED outsidePipe
    /\ pl_pc = "batch"
    /\ batch_i < loops
    /\ \E script \in Scripts : call' = NewCall("efetch", script)
    /\ kwlog' = [kwlog EXCEPT ![Len(kwlog)].used = Append(@, handle)]
    /\ pl_pc' = "efetch"
    /\ UNCHANGED <<nkw, kw, count, loops, batch_i, all_rows, csv, merged, handle, run>>

\* one attempt of the fetch request inside safe_request, and on a response
\* the rest of efetch_batch and lines 213-214
EfetchAttempt ==
    /\ UNCHANGED outsidePipe
    /\ pl_pc = "efetch"
    /\ call' = Attempted(call)
    /\ CASE call'.outcome = "running" ->
                UNCHANGED <<pl_pc, batch_i, all_rows, kwlog>>
         [] call'.outcome = "raised" ->
                /\ pl_pc' = "raised"
                /\ UNCHANGED <<batch_i, all_rows, kwlog>>
         [] call'.outcome = "returned" ->
                LET retstart == batch_i * BATCH
                    rows == XmlToRecords(ServerBatch(count, retstart, BATCH))
                IN  /\ all_rows' = all_rows + rows
                    /\ kwlog' = [kwlog EXCEPT ![Len(kwlog)] =
                                    [@ EXCEPT !.fetches = Append(@, retstart),
                                              !.records = @ + rows]]
                    /\ batch_i' = batch_i + 1
                    /\ pl_pc' = "batch"
    /\ UNCHANGED <<nkw, kw, count, loops, csv, merged, handle, run>>

\* lines 216-219: the batches are done, the keyword's CSV is written
WriteCsv ==
    /\ UNCHANGED outsidePipe
    /\ pl_pc = "batch"
    /\ batch_i >= loops
    /\ csv' = [csv EXCEPT ![kw] = all_rows]
    /\ pl_pc' = "for"
    /\ UNCHANGED <<nkw, kw, count, loops, batch_i, all_rows, merged, handle, run, call,
                   kwlog>>

\* lines 221-226: the keywords are done, the CSVs are merged, the path returned
PipelineReturn ==
    /\ UNCHANGED outsidePipe
    /\ pl_pc = "for"
    /\ kw = nkw
    /\ merged' = MergeCsvs(csv)
    /\ pl_pc' = "returned"
    /\ UNCHANGED <<nkw, kw, count, loops, batch_i, all_rows, csv, handle, run, call,
                   kwlog>>

\* the caller has the result or the exception; the locals are gone, the CSV
\* files stay on disk, from now on as files of an earlier run
PipelineEnd ==
    /\ UNCHANGED outsidePipe
    /\ pl_pc \in {"returned", "raised"}
    /\ pl_pc' = "idle"
    /\ nkw' = 0 /\ kw' = 0 /\ count' = 0 /\ loops' = 0 /\ batch_i' = 0 /\ all_rows' = 0
    /\ call' = NoCall
    /\ handle' = NoHandle
    /\ kwlog' = <<>>
    /\ csv' = [k \in DOMAIN csv |-> IF csv[k] = NoFile THEN NoFile ELSE Stale]
    /\ merged' = IF merged.state = "none" THEN NoWorkbook ELSE OldWorkbook
    /\ UNCHANGED run

PipeInit ==
    /\ pl_pc = "idle"
    /\ nkw = 0 /\ kw = 0 /\ count = 0 /\ loops = 0 /\ batch_i = 0 /\ all_rows = 0
    /\ csv = [k \in 1..MaxKeywords |-> NoFile]
    /\ merged = NoWorkbook
    /\ handle = NoHandle
    /\ run = 0
    /\ call = NoCall
    /\ kwlog = <<>>

NextPipeline ==
    \/ PipelineStart
    \/ NextKeyword
    \/ EsearchAttempt
    \/ BatchBegin
    \/ EfetchAttempt
    \/ WriteCsv
    \/ PipelineReturn
    \/ PipelineEnd

\* ------------------------------- literature/pubmed_runner.py: build_query
\* A string is modelled by its tokens.  A Filters value is the sequence of the
\* pieces between its commas (what split(",") returns), or None.
Pieces == {"", " ", "nan", "Review", " Clinical Trial "}

\* t.strip()
Strip(t) ==
    CASE t = " " -> ""
      [] t = " Clinical Trial " -> "Clinical Trial"
      [] OTHER -> t

NoneFilters == [none |-> TRUE, pieces |-> <<>>]
FilterValues ==
    {NoneFilters} \cup
    { [none |-> FALSE, pieces |-> p] : p \in UNION { [1..n -> Pieces] : n \in 1..MaxFilters } }

\* "filters_csv and filters_csv.strip()": the value is not None, not "" and
\* not white space only
Truthy(filters_csv) ==
    /\ ~filters_csv.none
    /\ ~(Len(filters_csv.pieces) = 1 /\ Strip(filters_csv.pieces[1]) = "")

\* [t.strip() for t in filters_csv.split(",") if t.strip()]
Types(filters_csv) ==
    LET stripped == [i \in 1..Len(filters_csv.pieces) |-> Strip(filters_csv.pieces[i])]
    IN  SelectSeq(stripped, LAMBDA t : t # "")

\* f'"{t}"[Publication Type]'
PublicationType(t) ==
    CASE t = "Review" -> "\"Review\"[Publication Type]"
      [] t = "Clinical Trial" -> "\"Clinical Trial\"[Publication Type]"
      [] t = "nan" -> "\"nan\"[Publication Type]"

\* sep.join(items), every item a sequence of tokens
RECURSIVE Join(_, _)
Join(items, sep) ==
    IF items = <<>> THEN <<>>
    ELSE IF Len(items) = 1 THEN items[1]
    ELSE items[1] \o <<sep>> \o Join(Tail(items), sep)

\* "(" + " OR ".join(terms) + ")"
Clause(terms) ==
    <<"(">> \o Join([i \in 1..Len(terms) |-> <<terms[i]>>], "OR") \o <<")">>

\* mutant: the full-text flag is not looked at
AvailTermsWithoutFull(abstract, free, full) ==
    (IF abstract THEN <<"hasabstract[text]">> ELSE <<>>) \o
    (IF free THEN <<"free full text[sb]">> ELSE <<>>)

\* avail_terms after the three ifs
AvailTerms(abstract, free, full) ==
    (IF abstract THEN <<"hasabstract[text]">> ELSE <<>>) \o
    (IF free THEN <<"free full text[sb]">> ELSE <<>>) \o
    (IF full THEN <<"full text[sb]">> ELSE <<>>)

\* build_query(keyword, filters_csv, APPLY_ABSTRACT, APPLY_FREE, APPLY_FULL)
BuildQuery(keyword, filters_csv, abstract, free, full) ==
    LET parts0 == << <<"(", keyword, ")">>, <<"english[lang]">>, <<"humans[mh]">> >>
        avail_terms == AvailTerms(abstract, free, full)
        parts1 == IF avail_terms # <<>> THEN Append(parts0, Clause(avail_terms))
                  ELSE parts0
        types == IF Truthy(filters_csv) THEN Types(filters_csv) ELSE <<>>
        parts2 == IF types # <<>>
                  THEN Append(parts1,
                              Clause([i \in 1..Len(types) |-> PublicationType(types[i])]))
                  ELSE parts1
    IN  Join(parts2, "AND")

QueryArgs ==
    [keyword : {"stent", "knee implant"}, filters_csv : FilterValues,
     abstract : BOOLEAN, free : BOOLEAN, full : BOOLEAN]

\* build_query runs and returns the term
BuildQueryReturn ==
    /\ UNCHANGED outsideQuery
    /\ bq_pc = "called"
    /\ term' = BuildQuery(bq_args.keyword, bq_args.filters_csv, bq_args.abstract,
                          bq_args.free, bq_args.full)
    /\ bq_pc' = "returned"
    /\ UNCHANGED bq_args

NoArgs == [keyword |-> "stent", filters_csv |-> NoneFilters,
           abstract |-> TRUE, free |-> FALSE, full |-> FALSE]

\* the keyword loop calls build_query for a keyword row
BuildQueryCall ==
    /\ UNCHANGED outsideQuery
    /\ bq_pc = "idle"
    /\ \E a \in QueryArgs : bq_args' = a
    /\ term' = <<>>
    /\ bq_pc' = "called"

\* the caller has used the term
BuildQueryEnd ==
    /\ UNCHANGED outsideQuery
    /\ bq_pc = "returned"
    /\ bq_args' = NoArgs
    /\ term' = <<>>
    /\ bq_pc' = "idle"

\* no build_query call under way
QueryIdle ==
    /\ bq_pc = "idle"
    /\ bq_args = NoArgs
    /\ term = <<>>

NextQuery ==
    \/ BuildQueryCall
    \/ BuildQueryReturn
    \/ BuildQueryEnd

\* ---------------------------- literature/pubmed_runner.py: xml_to_records
\* A sub-element of an entry: absent, present without text (el.text is None),
\* present with white space only, or present with a text.
Elements == {"absent", "notext", "blank", "text"}

\* An entry of the payload: a PubmedArticle with its PMID and ArticleTitle
\* sub-elements (the other sub-elements are read the same way), an entry under
\* another tag (PubmedBookArticle), or an entry that is not well-formed XML.
Entries ==
    [kind : {"PubmedArticle"}, pmid : Elements, title : Elements] \cup
    { [kind |-> "PubmedBookArticle", pmid |-> "text", title |-> "text"],
      [kind |-> "broken", pmid |-> "absent", title |-> "absent"] }

Payloads == UNION { [1..n -> Entries] : n \in 0..MaxEntries }

\* safe_text(el) for a sub-element whose text, when it has one, is value
SafeText(el, value) == IF el = "text" THEN value ELSE ""

\* ET.fromstring raises ParseError unless the whole document is well-formed
ParseFails(payload) == \E i \in 1..Len(payload) : payload[i].kind = "broken"

\* the dictionary appended for one PubmedArticle
XmlRecord(art) ==
    LET pmid == SafeText(art.pmid, "1") IN
    [PMID |-> pmid, Title |-> SafeText(art.title, "T"),
     PubMedURL |-> IF pmid # "" THEN "https://pubmed.ncbi.nlm.nih.gov/1/" ELSE ""]

\* the loop over root.findall(".//PubmedArticle")
XmlRecordList(payload) ==
    LET arts == SelectSeq(payload, LAMBDA e : e.kind = "PubmedArticle")
    IN  [i \in 1..Len(arts) |-> XmlRecord(arts[i])]

\* xml_to_records runs: it raises out of ET.fromstring or returns the records
XmlToRecordsEnd ==
    /\ UNCHANGED outsideXml
    /\ xr_pc = "called"
    /\ IF ParseFails(xml_text)
       THEN /\ xr_pc' = "raised"
            /\ UNCHANGED records
       ELSE /\ xr_pc' = "returned"
            /\ records' = XmlRecordList(xml_text)
    /\ UNCHANGED xml_text

\* the payload of a batch is handed to xml_to_records
XmlToRecordsCall ==
    /\ UNCHANGED outsideXml
    /\ xr_pc = "idle"
    /\ \E p \in Payloads : xml_text' = p
    /\ records' = <<>>
    /\ xr_pc' = "called"

\* the caller has the records or the exception
XmlToRecordsTaken ==
    /\ UNCHANGED outsideXml
    /\ xr_pc \in {"returned", "raised"}
    /\ xml_text' = <<>>
    /\ records' = <<>>
    /\ xr_pc' = "idle"

\* no xml_to_records call under way
XmlIdle ==
    /\ xr_pc = "idle"
    /\ xml_text = <<>>
    /\ records = <<>>

NextXml ==
    \/ XmlToRecordsCall
    \/ XmlToRecordsEnd
    \/ XmlToRecordsTaken

\* ------------------------------- literature/pubmed_runner.py: merge_csvs
\* the keyword files All-CSV can hold, and where sorted() puts each name
FileNames == {"#1.csv", "#10.csv", "#2.csv"}
NameRank == [n \in FileNames |->
                CASE n = "#1.csv" -> 1 [] n = "#10.csv" -> 2 [] n = "#2.csv" -> 3]

\* a cell of the PMID column as read_csv gives it: a number, or Blank (NaN)
Blank == 0
Pmids == {Blank, 1, 2}

Columns == UNION { [1..n -> Pmids] : n \in 0..MaxFileRows }

\* the orders os.listdir can give the names in
Listings(dir) ==
    LET present == { n \in FileNames : dir[n] # <<>> }
    IN  { l \in [1..Cardinality(present) -> present] :
            \A i, j \in 1..Cardinality(present) : i # j => l[i] # l[j] }

\* sorted(os.listdir(csv_dir))
Sorted(listing) == SortSeq(listing, LAMBDA a, b : NameRank[a] < NameRank[b])

\* the rows appended for one file; KeyCodeNo is its idx + 1
FileRows(name, column) ==
    [i \in 1..Len(column) |->
        [SrNo |-> 0, KeywordNo |-> name, KeyCodeNo |-> i, PMID |-> column[i]]]

RECURSIVE CombinedRows(_, _)
CombinedRows(names, dir) ==
    IF names = <<>> THEN <<>>
    ELSE FileRows(Head(names), dir[Head(names)]) \o CombinedRows(Tail(names), dir)

\* the column Sr.No as range(1, len + 1)
Numbered(rows) == [i \in 1..Len(rows) |-> [rows[i] EXCEPT !.SrNo = i]]

\* mutant: of the rows of one PMID the last one is kept
DropDuplicatesKeepLast(rows) ==
    LET keep == { i \in 1..Len(rows) :
                    \A j \in (i + 1)..Len(rows) : rows[j].PMID # rows[i].PMID }
        F[i \in 0..Len(rows)] ==
            IF i = 0 THEN <<>>
            ELSE IF i \in keep THEN Append(F[i - 1], rows[i]) ELSE F[i - 1]
    IN  F[Len(rows)]

\* drop_duplicates(subset="PMID", keep="first"): blank cells count as one value
DropDuplicates(rows) ==
    LET keep == { i \in 1..Len(rows) :
                    \A j \in 1..(i - 1) : rows[j].PMID # rows[i].PMID }
        F[i \in 0..Len(rows)] ==
            IF i = 0 THEN <<>>
            ELSE IF i \in keep THEN Append(F[i - 1], rows[i]) ELSE F[i - 1]
    IN  F[Len(rows)]

\* duplicated(subset="PMID", keep=False)
Duplicated(rows) ==
    [i \in 1..Len(rows) |->
        \E j \in 1..Len(rows) : j # i /\ rows[j].PMID = rows[i].PMID]

\* the rows of the Duplicate sheet that get the fill: row_idx from 2, the
\* first data row, row 1 being the header
FilledRows(duplicates) == { i + 1 : i \in { k \in 1..Len(duplicates) : duplicates[k] } }

NoSheets == [Combined |-> <<>>, Duplicate |-> <<>>, filled |-> {}, Master |-> <<>>]

\* merge_csvs(csv_dir, output_file) for one order of the directory listing
MergeSheets(listing, dir) ==
    LET combined_df == Numbered(CombinedRows(Sorted(listing), dir))
        master_df == Numbered(DropDuplicates(combined_df))
        duplicates == Duplicated(combined_df)
    IN  [Combined |-> combined_df, Duplicate |-> combined_df,
         filled |-> FilledRows(duplicates), Master |-> master_df]

\* merge_csvs is called on a directory
MergeCall ==
    /\ UNCHANGED outsideMerge
    /\ mg_pc = "idle"
    /\ \E d \in [FileNames -> Columns] : csv_dir' = d
    /\ workbook' = NoSheets
    /\ mg_pc' = "called"

\* merge_csvs runs and writes the workbook
MergeReturn ==
    /\ UNCHANGED outsideMerge
    /\ mg_pc = "called"
    /\ \E listing \in Listings(csv_dir) : workbook' = MergeSheets(listing, csv_dir)
    /\ mg_pc' = "returned"
    /\ UNCHANGED csv_dir

\* the caller has the path of the workbook
MergeEnd ==
    /\ UNCHANGED outsideMerge
    /\ mg_pc = "returned"
    /\ csv_dir' = [n \in FileNames |-> <<>>]
    /\ workbook' = NoSheets
    /\ mg_pc' = "idle"

\* no merge_csvs call under way
MergeIdle ==
    /\ mg_pc = "idle"
    /\ csv_dir = [n \in FileNames |-> <<>>]
    /\ workbook = NoSheets

NextMerge ==
    \/ MergeCall
    \/ MergeReturn
    \/ MergeEnd

\* ------------------------------------- secondary/pdf_download_runner.py
\* PdfDownloadStatus(project_id, literature_id, status="pending")
PdfRow(lit) == [literature_id |-> lit, status |-> "pending", file_path |-> [pdf |-> -1]]

\* .filter_by(project_id=..., literature_id=...).first(): the place of the row
RowsOf(table, lit) == { i \in 1..Len(table) : table[i].literature_id = lit }
FirstRow(table, lit) == CHOOSE i \in RowsOf(table, lit) : \A j \in RowsOf(table, lit) : i <= j

\* lines 59-73: a pending row is added for every record that has none
RECURSIVE EnsureRows(_, _)
EnsureRows(table, n) ==
    IF n = 0 THEN table
    ELSE LET t == EnsureRows(table, n - 1)
         IN  IF RowsOf(t, n) = {} THEN Append(t, PdfRow(n)) ELSE t

\* lines 78-90: the PubMed records screened INCLUDE
RECURSIVE IncludedArticles(_, _)
IncludedArticles(inc, n) ==
    IF n = 0 THEN <<>>
    ELSE IF inc[n] THEN Append(IncludedArticles(inc, n - 1), n)
         ELSE IncludedArticles(inc, n - 1)

\* mutant: no row is passed over
SkipsNothing(status) == FALSE

\* 'if pdf_status.status == "downloaded": continue'
Skips(status) == status = "downloaded"

\* f"{literature.article_id}.pdf"
FinalName(lit) == [pdf |-> lit]
\* the name the browser saves a download under
BrowserName == [pdf |-> 0]

\* max(..., key=os.path.getctime)
LatestPdf(files) == files[Len(files)]

\* os.replace(latest_pdf, final_path): a file already under the final name is
\* replaced by the latest file, which takes the name
Replace(files, final) ==
    LET others == SelectSeq(SubSeq(files, 1, Len(files) - 1),
                            LAMBDA f : f.name # final)
    IN  Append(others, [LatestPdf(files) EXCEPT !.name = final])

\* what the remote and the browser can do for one article
Outcomes == {"no_link", "elink_error", "selenium_error", "file", "no_file"}

\* run_pdf_download is called: the status rows are ensured and committed, the
\* articles to download are queried; without any the call returns
PdfRunStart ==
    /\ UNCHANGED outsidePdf
    /\ pd_pc = "idle"
    /\ pdf_table' = EnsureRows(pdf_table, lits)
    /\ pd_before' = pdf_table
    /\ pubmed_articles' = IncludedArticles(included, lits)
    /\ pd_i' = 0
    /\ pd_pc' = IF IncludedArticles(included, lits) = <<>> THEN "returned" ELSE "loop"
    /\ UNCHANGED <<lits, included, folder>>

\* one iteration of the for loop, lines 119-194
PdfArticle ==
    /\ UNCHANGED outsidePdf
    /\ pd_pc = "loop"
    /\ pd_i < Len(pubmed_articles)
    /\ pd_i' = pd_i + 1
    /\ LET lit == pubmed_articles[pd_i + 1]
           r == FirstRow(pdf_table, lit)
       IN  IF Skips(pdf_table[r].status)
           THEN UNCHANGED <<pdf_table, folder>>
           ELSE \E outcome \in Outcomes :
                  CASE outcome = "no_link" ->
                         /\ pdf_table' = [pdf_table EXCEPT ![r].status = "not_found"]
                         /\ UNCHANGED folder
                    [] outcome \in {"elink_error", "selenium_error"} ->
                         /\ pdf_table' = [pdf_table EXCEPT ![r].status = "failed"]
                         /\ UNCHANGED folder
                    [] outcome \in {"file", "no_file"} ->
                         LET pdf_files ==
                                 IF outcome = "file"
                                 THEN Append(folder, [name |-> BrowserName, content |-> lit])
                                 ELSE folder
                         IN  IF pdf_files = <<>>
                             THEN /\ pdf_table' =
                                        [pdf_table EXCEPT ![r].status = "not_downloaded"]
                                  /\ UNCHANGED folder
                             ELSE /\ folder' = Replace(pdf_files, FinalName(lit))
                                  /\ pdf_table' =
                                        [pdf_table EXCEPT ![r].status = "downloaded",
                                                          ![r].file_path = FinalName(lit)]
    /\ UNCHANGED <<pd_pc, lits, included, pubmed_articles, pd_before>>

\* lines 196-213: the loop is over, the call returns
PdfRunReturn ==
    /\ UNCHANGED outsidePdf
    /\ pd_pc = "loop"
    /\ pd_i = Len(pubmed_articles)
    /\ pd_pc' = "returned"
    /\ UNCHANGED <<lits, included, pdf_table, folder, pubmed_articles, pd_i, pd_before>>

\* the caller has the result; the locals are gone
PdfRunEnd ==
    /\ UNCHANGED outsidePdf
    /\ pd_pc = "returned"
    /\ pd_pc' = "idle"
    /\ pubmed_articles' = <<>>
    /\ pd_i' = 0
    /\ pd_before' = <<>>
    /\ UNCHANGED <<lits, included, pdf_table, folder>>

\* between two calls a harvesting commit and its screening add a record
PdfNewLiterature ==
    /\ UNCHANGED outsidePdf
    /\ pd_pc = "idle"
    /\ lits < MaxArticles
    /\ lits' = lits + 1
    /\ \E b \in BOOLEAN : included' = [included EXCEPT ![lits + 1] = b]
    /\ UNCHANGED <<pd_pc, pdf_table, folder, pubmed_articles, pd_i, pd_before>>

PdfInit ==
    /\ pd_pc = "idle"
    /\ lits = 0
    /\ included = [a \in 1..MaxArticles |-> FALSE]
    /\ pdf_table = <<>>
    /\ folder = <<>>
    /\ pubmed_articles = <<>>
    /\ pd_i = 0
    /\ pd_before = <<>>

NextPdf ==
    \/ PdfRunStart
    \/ PdfArticle
    \/ PdfRunReturn
    \/ PdfRunEnd
    \/ PdfNewLiterature

\* ---------------------------------- services/primary_screening_service.py
\* the PrimaryScreening rows of a Literature record
ScreeningsOf(rows, lit) == { i \in 1..Len(rows) : rows[i].literature_id = lit }

\* mutant: the query does not ask for records without a screening
UnscreenedOrNot(rows, lit) == TRUE

\* Literature.primary_screening == None
Unscreened(rows, lit) == ScreeningsOf(rows, lit) = {}

\* lines 27-35: the unique records of the project that have no screening
RECURSIVE QueryArticles(_, _, _)
QueryArticles(uniq, rows, n) ==
    IF n = 0 THEN <<>>
    ELSE IF uniq[n] /\ Unscreened(rows, n)
         THEN Append(QueryArticles(uniq, rows, n - 1), n)
         ELSE QueryArticles(uniq, rows, n - 1)

\* what the reply of the LLM flow makes of decision
Decisions == {"INCLUDE", "EXCLUDE", "ERROR"}

\* PrimaryScreening(project_id=..., literature_id=art.id, decision=...)
Screening(lit, decision) == [literature_id |-> lit, decision |-> decision]

\* run_primary_screening_for_project is called: the articles are queried
PrimaryStart ==
    /\ UNCHANGED outsidePrimary
    /\ ps_pc = "idle"
    /\ ps_articles' = QueryArticles(unique_flags, primary_screening, Len(unique_flags))
    /\ ps_before' = primary_screening
    /\ ps_pending' = <<>>
    /\ screened' = 0
    /\ ps_pc' = "loop"
    /\ UNCHANGED <<unique_flags, primary_screening>>

\* one iteration of the for loop: the flow is called, the row is added
PrimaryArticle ==
    /\ UNCHANGED outsidePrimary
    /\ ps_pc = "loop"
    /\ screened < Len(ps_articles)
    /\ \E d \in Decisions :
          ps_pending' = Append(ps_pending, Screening(ps_articles[screened + 1], d))
    /\ screened' = screened + 1
    /\ UNCHANGED <<ps_pc, unique_flags, primary_screening, ps_articles, ps_before>>

\* db.commit() and return screened
PrimaryCommit ==
    /\ UNCHANGED outsidePrimary
    /\ ps_pc = "loop"
    /\ screened = Len(ps_articles)
    /\ primary_screening' = Commit(primary_screening, ps_pending)
    /\ ps_pending' = <<>>
    /\ ps_pc' = "returned"
    /\ UNCHANGED <<unique_flags, ps_articles, screened, ps_before>>

\* call_langflow or db.commit() raises: the request's session is closed with
\* its rows still pending
PrimaryFail ==
    /\ UNCHANGED outsidePrimary
    /\ ps_pc = "loop"
    /\ primary_screening' = CloseSession(primary_screening, ps_pending)
    /\ ps_pc' = "raised"
    /\ UNCHANGED <<unique_flags, ps_articles, ps_pending, screened, ps_before>>

\* the caller goes on: the locals and the session are gone
PrimaryEnd ==
    /\ UNCHANGED outsidePrimary
    /\ ps_pc \in {"returned", "raised"}
    /\ ps_pc' = "idle"
    /\ ps_articles' = <<>>
    /\ ps_pending' = <<>>
    /\ screened' = 0
    /\ ps_before' = <<>>
    /\ UNCHANGED <<unique_flags, primary_screening>>

\* between two calls a harvesting commit adds a record, unique or not
PrimaryNewLiterature ==
    /\ UNCHANGED outsidePrimary
    /\ ps_pc = "idle"
    /\ Len(unique_flags) < MaxArticles
    /\ \E b \in BOOLEAN : unique_flags' = Append(unique_flags, b)
    /\ UNCHANGED <<ps_pc, primary_screening, ps_articles, ps_pending, screened, ps_before>>

PrimaryInit ==
    /\ ps_pc = "idle"
    /\ unique_flags = <<>>
    /\ primary_screening = <<>>
    /\ ps_articles = <<>>
    /\ ps_pending = <<>>
    /\ screened = 0
    /\ ps_before = <<>>

NextPrimary ==
    \/ PrimaryStart
    \/ PrimaryArticle
    \/ PrimaryCommit
    \/ PrimaryFail
    \/ PrimaryEnd
    \/ PrimaryNewLiterature

Init ==
    /\ SaveInit /\ RouterInit /\ PipeInit /\ QueryIdle /\ XmlIdle /\ MergeIdle
    /\ PdfInit /\ PrimaryInit

SpecPrimary == Init /\ [][NextPrimary]_vars

SpecPdf == Init /\ [][NextPdf]_vars

SpecMerge == Init /\ [][NextMerge]_vars

SpecXml == Init /\ [][NextXml]_vars

SpecQuery == Init /\ [][NextQuery]_vars

SpecSave == Init /\ [][NextSave]_vars

SpecRouter == Init /\ [][NextRouter]_vars

SpecPipeline == Init /\ [][NextPipeline]_vars

\* ------------------------------------------------ claims on the dedup gate
InCall == sv_pc \in {"loop", "returned", "raised"}

\* C1: in every project's committed rows, at most one row of a given article_id
\* has is_unique = TRUE, whatever sequence of commits produced them.
C1_AtMostOneUniquePerId ==
    \A p \in Projects : \A i, j \in 1..Len(literature[p]) :
        (i < j /\ literature[p][i].article_id = literature[p][j].article_id)
            => ~(literature[p][i].is_unique /\ literature[p][j].is_unique)

\* a project holds one id three times, from more than one commit, one flagged unique
C1_Witness ==
    \E p \in Projects : \E i, j, k \in 1..Len(literature[p]) :
        /\ i < j /\ j < k
        /\ literature[p][i].article_id = literature[p][j].article_id
        /\ literature[p][j].article_id = literature[p][k].article_id
        /\ literature[p][i].is_unique
        /\ sv_pc = "returned" /\ count_before > 0 /\ p = project_id

\* C2: within one call, the k-th staged record carries the k-th row's id and is
\* flagged unique exactly when that id is neither stored for the project before
\* the call nor carried by an earlier row of the same call.
C2_FirstOccurrenceWins ==
    sv_pc = "loop" =>
        /\ Len(pending) = inserted
        /\ \A k \in 1..Len(pending) :
              /\ pending[k].article_id = Str(df[k])
              /\ pending[k].is_unique <=>
                    /\ \A i \in 1..Len(literature[project_id]) :
                          literature[project_id][i].article_id # Str(df[k])
                    /\ \A i \in 1..(k - 1) : Str(df[i]) # Str(df[k])

\* an id stored once arrives twice in one call: two staged records, both FALSE
C2_Witness ==
    /\ sv_pc = "loop" /\ Len(df) = 2 /\ Len(pending) = 2
    /\ Str(df[1]) = Str(df[2])
    /\ Cardinality({ i \in 1..Len(literature[project_id]) :
                       literature[project_id][i].article_id = Str(df[1]) }) = 1
    /\ ~pending[1].is_unique /\ ~pending[2].is_unique

\* C3: a call that returns has inserted every row of its input, flagged unique or
\* not: it returns the length of the input and the project's rows are the rows it
\* had before followed by one row per input row.
C3_ReturnsTotalInserted ==
    sv_pc = "returned" =>
        /\ inserted = Len(df)
        /\ Len(literature[project_id]) = count_before + inserted
        /\ \A k \in 1..Len(df) :
              literature[project_id][count_before + k].article_id = Str(df[k])

\* a returned call whose input held a duplicate: it is counted and stored all the same
C3_Witness ==
    /\ sv_pc = "returned" /\ inserted = 2
    /\ ~literature[project_id][count_before + 2].is_unique
    /\ count_before > 0

\* C4 (as claimed): two records of a project with an empty or missing id never
\* differ in is_unique on account of each other.
C4_MissingIdsNotDeduplicated ==
    \A p \in Projects : \A i, j \in 1..Len(literature[p]) :
        (MissingId(literature[p][i].article_id) /\ MissingId(literature[p][j].article_id))
            => literature[p][i].is_unique = literature[p][j].is_unique

\* C5: while a call runs and after it failed, the project's committed rows are
\* the rows it had before the call; only a return adds rows, and then all of them.
C5_CommitAtomic ==
    InCall =>
        Len(literature[project_id]) =
            IF sv_pc = "returned" THEN count_before + Len(df) ELSE count_before

\* a call failed partway through its input, with rows already added to the session
C5_Witness ==
    /\ sv_pc = "raised"
    /\ Len(pending) > 0 /\ Len(pending) < Len(df)
    /\ Len(literature[project_id]) = count_before

\* C15: no step of a commit removes or alters a stored record: every project's
\* rows after the step begin with the rows it had before the step, field by field.
C15_AppendOnly ==
    [][\A p \in Projects :
          /\ Len(literature'[p]) >= Len(literature[p])
          /\ SubSeq(literature'[p], 1, Len(literature[p])) = literature[p]]_vars

\* a call returned after adding a row of an id the project already held as unique:
\* the stored row is still there and still flagged unique
C15_Witness ==
    /\ sv_pc = "returned" /\ count_before > 0 /\ inserted > 0
    /\ \E i \in 1..count_before : \E j \in (count_before + 1)..Len(literature[project_id]) :
          /\ literature[project_id][i].article_id = literature[project_id][j].article_id
          /\ literature[project_id][i].is_unique

\* C16: a commit into project P flags a record FALSE only when its id is stored
\* for P or came earlier in the same input, whatever the other projects hold,
\* and no step of it changes the rows of a project other than P.
C16_ProjectIsolation ==
    [][/\ \A q \in Projects : literature'[q] # literature[q] => q = project_id
       /\ \A k \in 1..Len(pending) :
             ~pending[k].is_unique =>
                \/ pending[k].article_id \in ArticleIds(literature[project_id])
                \/ \E i \in 1..(k - 1) : pending[i].article_id = pending[k].article_id]_vars

\* a record whose id only the other project holds has been committed, flagged
\* unique, and the other project's rows are as they were
C16_Witness ==
    /\ sv_pc = "returned" /\ inserted > 0
    /\ \E q \in Projects \ {project_id} :
          /\ literature[project_id][count_before + 1].article_id \in ArticleIds(literature[q])
          /\ literature[project_id][count_before + 1].is_unique
          /\ \A i \in 1..Len(literature[q]) : literature[q][i].is_unique

\* ---------------------------------------------------- claims on build_query
QueryBuilt == bq_pc = "returned"

PublicationTokens == { PublicationType(t) : t \in {"Review", "Clinical Trial", "nan"} }

\* C21 (as claimed): the term has no publication-type clause when the Filters
\* value is None, has no piece but blank ones, or is the text "nan"; otherwise
\* the term ends with the OR of the quoted non-blank pieces, in their order.
C21_PublicationClause ==
    QueryBuilt =>
        LET f == bq_args.filters_csv
            wanted == IF f.none THEN <<>>
                      ELSE SelectSeq([i \in 1..Len(f.pieces) |-> Strip(f.pieces[i])],
                                     LAMBDA t : t # "")
            n == Len(wanted)
            isNan == ~f.none /\ Len(f.pieces) = 1 /\ Strip(f.pieces[1]) = "nan"
        IN  IF n = 0 \/ isNan
            THEN \A i \in 1..Len(term) : term[i] \notin PublicationTokens
            ELSE /\ Len(term) > 2 * n + 1
                 /\ term[Len(term)] = ")"
                 /\ term[Len(term) - 2 * n] = "("
                 /\ term[Len(term) - 2 * n - 1] = "AND"
                 /\ \A j \in 1..n :
                       term[Len(term) - 2 * n + 2 * j - 1] = PublicationType(wanted[j])
                 /\ \A j \in 1..(n - 1) : term[Len(term) - 2 * n + 2 * j] = "OR"

\* the three availability terms, in the order build_query looks at their flags
AvailabilityOf(a) ==
    SelectSeq(<<"hasabstract[text]", "free full text[sb]", "full text[sb]">>,
              LAMBDA t : \/ (t = "hasabstract[text]" /\ a.abstract)
                         \/ (t = "free full text[sb]" /\ a.free)
                         \/ (t = "full text[sb]" /\ a.full))

\* C22: the term begins with the keyword in parentheses, english[lang] and
\* humans[mh], in that order; then comes the OR of exactly the enabled
\* availability terms, and no availability term at all when none is enabled.
C22_AvailabilityClause ==
    QueryBuilt =>
        LET avail == AvailabilityOf(bq_args)
            n == Len(avail)
        IN  /\ Len(term) >= 7
            /\ SubSeq(term, 1, 7) = <<"(", bq_args.keyword, ")", "AND", "english[lang]",
                                      "AND", "humans[mh]">>
            /\ IF n = 0
               THEN \A i \in 1..Len(term) :
                       term[i] \notin {"hasabstract[text]", "free full text[sb]",
                                       "full text[sb]"}
               ELSE /\ Len(term) >= 9 + 2 * n
                    /\ term[8] = "AND" /\ term[9] = "("
                    /\ \A j \in 1..n : term[8 + 2 * j] = avail[j]
                    /\ \A j \in 1..(n - 1) : term[9 + 2 * j] = "OR"
                    /\ term[9 + 2 * n] = ")"

\* all three flags enabled: the clause is the OR of the three terms
C22_Witness ==
    /\ QueryBuilt
    /\ bq_args.abstract /\ bq_args.free /\ bq_args.full
    /\ SubSeq(term, 8, 15) = <<"AND", "(", "hasabstract[text]", "OR",
                               "free full text[sb]", "OR", "full text[sb]", ")">>

\* ------------------------------------------------- claims on xml_to_records
\* the entries of the payload that are not a PubmedArticle to normalize
Malformed(payload) == { i \in 1..Len(payload) : payload[i].kind # "PubmedArticle" }

\* C23 (as claimed): a payload of N entries of which at most one is malformed
\* is normalized without error into N - 1 or N records, whose fields are
\* texts, "" for a missing sub-element.
C23_NormalizerTolerant ==
    (xr_pc \in {"returned", "raised"} /\ Cardinality(Malformed(xml_text)) <= 1) =>
        /\ xr_pc = "returned"
        /\ Len(records) >= Len(xml_text) - 1
        /\ Len(records) <= Len(xml_text)
        /\ \A i \in 1..Len(records) :
              /\ records[i].PMID \in {"", "1"}
              /\ records[i].Title \in {"", "T"}

\* ----------------------------------------------------- claims on merge_csvs
\* the place of a row in (sorted keyword file, row) order
Place(row) == <<NameRank[row.KeywordNo], row.KeyCodeNo>>

Earlier(a, b) == a[1] < b[1] \/ (a[1] = b[1] /\ a[2] < b[2])

\* C27: the Combined sheet has every row of every keyword file, in (sorted
\* file, row) order; the Master sheet has, for every PMID of Combined, exactly
\* one row, the earliest row of that PMID, in the same order and numbered
\* 1..n; a row of the Duplicate sheet is filled exactly when its PMID occurs
\* more than once in Combined.
C27_MasterSheet ==
    mg_pc = "returned" =>
        LET c == workbook.Combined
            m == workbook.Master
        IN  /\ \A name \in FileNames : \A i \in 1..Len(csv_dir[name]) :
                  Cardinality({ k \in 1..Len(c) :
                                  /\ c[k].KeywordNo = name /\ c[k].KeyCodeNo = i
                                  /\ c[k].PMID = csv_dir[name][i] }) = 1
            /\ Len(c) = Len(csv_dir["#1.csv"]) + Len(csv_dir["#10.csv"])
                            + Len(csv_dir["#2.csv"])
            /\ \A k \in 1..Len(c) : c[k].SrNo = k
            /\ \A j, k \in 1..Len(c) : j < k => Earlier(Place(c[j]), Place(c[k]))
            /\ \A k \in 1..Len(c) :
                  Cardinality({ j \in 1..Len(m) : m[j].PMID = c[k].PMID }) = 1
            /\ \A j \in 1..Len(m) :
                  /\ m[j].SrNo = j
                  /\ \E k \in 1..Len(c) :
                        /\ Place(c[k]) = Place(m[j]) /\ c[k].PMID = m[j].PMID
                        /\ \A i \in 1..Len(c) :
                              c[i].PMID = m[j].PMID => ~Earlier(Place(c[i]), Place(m[j]))
            /\ \A i, j \in 1..Len(m) : i < j => Earlier(Place(m[i]), Place(m[j]))
            /\ workbook.Duplicate = c
            /\ \A k \in 1..Len(c) :
                  (k + 1 \in workbook.filled) <=>
                      Cardinality({ i \in 1..Len(c) : c[i].PMID = c[k].PMID }) > 1
            /\ \A r \in workbook.filled : r >= 2 /\ r <= Len(c) + 1

\* PMID 1 is in #10.csv and again, after PMID 2, in #2.csv: Master keeps the
\* row of #10.csv and the row of PMID 2, numbered 1 and 2; rows 2 and 4 of the
\* Duplicate sheet are filled
C27_Witness ==
    /\ mg_pc = "returned"
    /\ csv_dir = [n \in FileNames |->
                    CASE n = "#1.csv" -> <<>> [] n = "#10.csv" -> <<1>>
                      [] n = "#2.csv" -> <<2, 1>>]
    /\ Len(workbook.Master) = 2
    /\ workbook.Master[1].KeywordNo = "#10.csv" /\ workbook.Master[1].PMID = 1
    /\ workbook.Master[2].SrNo = 2 /\ workbook.Master[2].PMID = 2
    /\ workbook.filled = {2, 4}

\* ----------------------------------------------- claims on run_pdf_download
\* C25 (as claimed): every status row marked downloaded for an article points
\* to a file of the folder whose content was fetched for that article.
C25_PdfAttribution ==
    \A i \in 1..Len(pdf_table) :
        pdf_table[i].status = "downloaded" =>
            \E k \in 1..Len(folder) :
                /\ folder[k].name = pdf_table[i].file_path
                /\ folder[k].content = pdf_table[i].literature_id

\* C29: once the status rows are ensured every record of the project has exactly
\* one row, and no record ever has two; no step changes a row whose status is
\* "downloaded": later calls pass it over, status and file_path as they were.
C29_StatusIdempotent ==
    [][/\ \A a \in 1..MaxArticles : Cardinality(RowsOf(pdf_table', a)) <= 1
       /\ pd_pc' # "idle" =>
             \A a \in 1..lits' : Cardinality(RowsOf(pdf_table', a)) = 1
       /\ \A i \in 1..Len(pdf_table) :
             pdf_table[i].status = "downloaded" =>
                (Len(pdf_table') >= i /\ pdf_table'[i] = pdf_table[i])]_vars

\* a later call has gone past a row that was downloaded before it began, with
\* an article after it still handled
C29_Witness ==
    /\ pd_pc = "returned" /\ pd_i = 2
    /\ \E i \in 1..Len(pd_before) :
          /\ pd_before[i].status = "downloaded"
          /\ pdf_table[i] = pd_before[i]
          /\ pdf_table[i].literature_id \in { pubmed_articles[j] : j \in 1..pd_i }
    /\ \E i \in 1..Len(pd_before) :
          pd_before[i].status # "downloaded" /\ pdf_table[i].status = "downloaded"

\* ------------------------------------------- claims on primary screening
\* C28: whatever calls have run, one after the other, every Literature record
\* has at most one PrimaryScreening row, a record that is not unique has none,
\* and every row is of a record of the project.
C28_ScreenedOnce ==
    /\ \A a \in 1..Len(unique_flags) :
          /\ Cardinality(ScreeningsOf(primary_screening, a)) <= 1
          /\ ~unique_flags[a] => ScreeningsOf(primary_screening, a) = {}
    /\ \A i \in 1..Len(primary_screening) :
          primary_screening[i].literature_id \in 1..Len(unique_flags)

\* a later call has screened a new unique record; the record screened by an
\* earlier call keeps its one row, and a record that is not unique has none
C28_Witness ==
    /\ ps_pc = "returned" /\ screened > 0
    /\ ps_before # <<>>
    /\ Len(primary_screening) = Len(ps_before) + screened
    /\ \E a \in 1..Len(unique_flags) : ~unique_flags[a]

\* --------------------------------------------------- claims on the router
InPipeline(p) == { s \in Slots : req[s].pc = "pipeline" /\ req[s].project = p }

\* C6 (as claimed): at any time at most one request is inside the pipeline for
\* a given project, whichever entry point it came through.
C6_OneRunPerProject ==
    \A p \in Projects : Cardinality(InPipeline(p)) <= 1

\* ------------------------------------------------- claims on the pipeline
\* the k-th keyword of the run has been searched and its batch loop is over
KeywordDone(k) == k < Len(kwlog) \/ (k = Len(kwlog) /\ pl_pc \in {"for", "returned"})

\* C7: a keyword whose search reported N > 0 hits and whose retrieval is over
\* had exactly ceil(N / BATCH) batch fetches (the least n with n * BATCH >= N),
\* at the offsets 0, BATCH, 2 * BATCH, ..., and N records came out of them.
C7_PaginationComplete ==
    \A k \in 1..Len(kwlog) :
        (KeywordDone(k) /\ kwlog[k].count > 0) =>
            LET n == Len(kwlog[k].fetches) IN
            /\ n * BATCH >= kwlog[k].count
            /\ (n - 1) * BATCH < kwlog[k].count
            /\ \A j \in 1..n : kwlog[k].fetches[j] = (j - 1) * BATCH
            /\ kwlog[k].records = kwlog[k].count

\* the spec's scenario: 350 hits, two fetches at offsets 0 and 200, 350 records
C7_Witness ==
    \E k \in 1..Len(kwlog) :
        /\ KeywordDone(k)
        /\ kwlog[k].count = 350
        /\ kwlog[k].fetches = <<0, 200>>
        /\ kwlog[k].records = 350

\* C8: a keyword whose search reported 0 hits has no batch fetch, no record and
\* no CSV of this run, and the run is not failed by it: it stands at the head of
\* the keyword loop (or has returned) until the next keyword is taken.
C8_EmptyResultShortCircuit ==
    \A k \in 1..Len(kwlog) :
        kwlog[k].count = 0 =>
            /\ kwlog[k].fetches = <<>>
            /\ kwlog[k].records = 0
            /\ csv[k] \in {NoFile, Stale}
            /\ k = kw => pl_pc \in {"for", "returned"}

\* after a keyword without hits the run has searched the next keyword
C8_Witness ==
    /\ Len(kwlog) = 2
    /\ kwlog[1].count = 0
    /\ kwlog[2].count > 0
    /\ pl_pc = "batch"

CallEnded == call.kind # "none" /\ call.outcome \in {"returned", "raised"}

\* C9 (as claimed): a search or batch-fetch call that the remote answers with
\* 429 exactly MAX_RETRIES times and then with 200 returns, having slept
\* MAX_RETRIES times, the k-th time for DEFAULT_SLEEP * 2^(k-1).
C9_RetryThenSuccess ==
    (CallEnded /\ call.script.n429 = MAX_RETRIES /\ call.script.final = 200) =>
        /\ call.outcome = "returned"
        /\ Len(call.sleeps) = MAX_RETRIES
        /\ \A k \in 1..Len(call.sleeps) : call.sleeps[k] = DEFAULT_SLEEP * Pow2(k - 1)
        /\ \A k \in 2..Len(call.sleeps) : call.sleeps[k - 1] < call.sleeps[k]

\* C10 (as claimed): no call makes more than MAX_RETRIES + 1 attempts, and a
\* call that the remote answers with 429 at least MAX_RETRIES + 1 times in a
\* row raises after exactly MAX_RETRIES + 1 attempts.
C10_RetryExhausted ==
    /\ call.attempts <= MAX_RETRIES + 1
    /\ (CallEnded /\ call.script.n429 >= MAX_RETRIES + 1) =>
          /\ call.outcome = "raised"
          /\ call.attempts = MAX_RETRIES + 1

\* C11 (as claimed): the failure of one keyword's retrieval does not end the run:
\* a run that has stopped on a failure has no keyword left to search.
C11_FailureIsolated ==
    pl_pc = "raised" => kw = nkw

\* C12 (as claimed): a run stopped by one keyword's failure still has its output:
\* the merged workbook is this run's and holds the records of every keyword
\* whose retrieval succeeded.
C12_ResultsKept ==
    pl_pc = "raised" =>
        \A k \in 1..Len(kwlog) :
            (kwlog[k].count > 0 /\ csv[k] = kwlog[k].count) =>
                (merged.state = "new" /\ merged.rows[k] = kwlog[k].records)

\* the status the remote gave to the last attempt made by the call
LastAnswer(c) == Answer(c.script, c.attempts - 1)

\* C17: a request answered with an HTTP error status other than 429 ends the call
\* with the error at that attempt, with no sleep after it; when the error is the
\* first answer the call made exactly one attempt and never slept for backoff.
C17_OtherErrorsPropagate ==
    (call.attempts >= 1 /\ LastAnswer(call) >= 400 /\ LastAnswer(call) # 429) =>
        /\ call.outcome = "raised"
        /\ call.trace[Len(call.trace)] = Get
        /\ call.script.n429 = 0 => (call.attempts = 1 /\ call.sleeps = <<>>)

\* a search answered 404: one attempt, no backoff, the error raised
C17_Witness ==
    /\ call.kind = "esearch" /\ call.outcome = "raised"
    /\ call.script.n429 = 0 /\ call.script.final = 404
    /\ call.attempts = 1 /\ call.sleeps = <<>>

\* C18 (as claimed): a batch fetch fails on a 5xx answer only after the retries
\* are used up.
C18_ServerErrorRetried ==
    (call.kind = "efetch" /\ call.outcome = "raised" /\ call.attempts >= 1
        /\ LastAnswer(call) >= 500) =>
        call.retries = MAX_RETRIES

\* C18 (amended): a 5xx answer to a batch fetch is not retried: the fetch raises
\* at that very attempt, without a backoff sleep for it, and the keyword's
\* retrieval has failed.
C18_ServerErrorNotRetried ==
    (call.kind = "efetch" /\ call.attempts >= 1 /\ LastAnswer(call) >= 500) =>
        /\ call.outcome = "raised"
        /\ pl_pc = "raised"
        /\ Len(call.sleeps) < call.attempts
        /\ kwlog[Len(kwlog)].records < kwlog[Len(kwlog)].count

\* the second batch of a keyword is answered 500 at the first attempt: the
\* fetch has raised after one attempt and no sleep
C18_Witness ==
    /\ call.kind = "efetch" /\ call.outcome = "raised"
    /\ call.script = [n429 |-> 0, final |-> 500]
    /\ call.attempts = 1 /\ call.retries = 0 /\ call.sleeps = <<>>
    /\ pl_pc = "raised"
    /\ Len(kwlog[Len(kwlog)].fetches) = 1

\* C19: every fetch request of a keyword was sent with the handle that keyword's
\* own search returned, a handle of this run that no other keyword of the run
\* has; the offsets of a keyword's fetches increase strictly; at most one fetch
\* request is not yet answered, and it belongs to the keyword the run is at;
\* when the next keyword's search is under way or over, all fetches of the
\* keyword have returned and cover its count.
C19_HandleScoping ==
    \A k \in 1..Len(kwlog) :
        LET e == kwlog[k] IN
        /\ e.handle.run = run
        /\ \A j \in 1..Len(e.used) : e.used[j] = e.handle
        /\ \A m \in 1..Len(kwlog) : m # k => kwlog[m].handle # e.handle
        /\ \A j \in 2..Len(e.fetches) : e.fetches[j - 1] < e.fetches[j]
        /\ Len(e.used) - Len(e.fetches) \in {0, 1}
        /\ Len(e.used) > Len(e.fetches) =>
              (k = Len(kwlog) /\ pl_pc \in {"efetch", "raised"})
        /\ (k < Len(kwlog) \/ pl_pc = "esearch") =>
              /\ Len(e.used) = Len(e.fetches)
              /\ Len(e.fetches) * BATCH >= e.count

\* two keywords of two batches each: the second keyword's second fetch is
\* under way with the second keyword's handle, in the second run
C19_Witness ==
    /\ Len(kwlog) = 2 /\ pl_pc = "efetch" /\ run = 0
    /\ Len(kwlog[1].used) = 2 /\ Len(kwlog[2].used) = 2
    /\ kwlog[2].used[2] = handle
    /\ handle # kwlog[1].handle

\* C20: in every search call and every batch-fetch call, each request sent, the
\* first one and each retry, comes right after a sleep of positive length.
C20_SleepBeforeRequest ==
    \A i \in 1..Len(call.trace) :
        call.trace[i] = Get =>
            /\ i > 1
            /\ call.trace[i - 1].ev = "sleep"
            /\ call.trace[i - 1].t > 0

\* the second keyword's fetch was sent after its DEFAULT_SLEEP and has returned
C20_Witness ==
    /\ call.kind = "efetch" /\ call.outcome = "returned"
    /\ call.trace = <<Sleep(DEFAULT_SLEEP), Get>>
    /\ Len(kwlog) = 2

\* C24: a project is marked running only while a run of it is inside the
\* pipeline call: every way out of the call (return, cancellation, exception)
\* has cleared the mark, so no finished run leaves it set.
C24_RunningFlagReleased ==
    \A p \in Projects :
        running_searches[p] =>
            \E s \in Slots :
                req[s].kind = "run" /\ req[s].project = p /\ req[s].pc = "pipeline"

\* a run ended by an exception of the pipeline, one by a return: the project of
\* each is not marked running
C24_Witness ==
    /\ req[1].kind = "run" /\ req[1].pc \in {"500", "partial"}
    /\ req[2].kind = "run" /\ req[2].pc = "200"
    /\ ~running_searches[req[1].project] /\ ~running_searches[req[2].project]

\* C30: cancel_search for a project that is not marked running answers 404 and
\* changes neither dictionary; a cancellation flag goes up only for a project
\* marked running; a run enters the pipeline with its project's flag down.
C30_CancelWithoutRun ==
    [][/\ \A s \in Slots :
            (/\ req[s].kind = "cancel" /\ req[s].pc = "queued" /\ req'[s].pc # "queued"
             /\ ~running_searches[req[s].project]) =>
                /\ req'[s].pc = "404"
                /\ running_searches' = running_searches
                /\ cancellation_flags' = cancellation_flags
       /\ \A p \in Projects :
            (cancellation_flags'[p] /\ ~cancellation_flags[p]) => running_searches[p]
       /\ \A s \in Slots :
            (req[s].pc = "fill" /\ req'[s].pc = "pipeline") =>
                ~cancellation_flags'[req[s].project]]_vars

\* a cancel aimed at a run that has just ended is answered 404
C30_Witness ==
    \E s, t \in Slots :
        /\ req[s].kind = "cancel" /\ req[s].pc = "404"
        /\ req[t].kind = "run" /\ req[t].pc = "200" /\ req[t].project = req[s].project
        /\ ~cancellation_flags[req[s].project]

\* C26 (as claimed): when run_pubmed_pipeline has returned, the merged workbook
\* has the rows of keyword k exactly when this run's search for k reported
\* hits, and they are the records this run fetched for k.
C26_MergedIsCurrentRun ==
    pl_pc = "returned" =>
        \A k \in 1..MaxKeywords :
            merged.rows[k] =
                IF k <= Len(kwlog) /\ kwlog[k].count > 0 THEN kwlog[k].records
                ELSE NoFile

\* C13 (as claimed): once cancellation has been asked for a run, the run goes
\* no further than the keyword it was at: it retrieves at most the keyword
\* under way and none after it.
C13_CancelAtKeywordBoundary ==
    \A s \in Slots :
        (req[s].kind = "run" /\ req[s].signal # NoSignal) =>
            req[s].kwdone <= req[s].signal + 1

\* C14 (as claimed): a run that failed tells the caller the number of records
\* that run committed.
C14_FailureReportsRunCount ==
    \A s \in Slots :
        (req[s].kind = "run" /\ req[s].pc = "partial") =>
            req[s].records_saved = req[s].committed

====
